---- MODULE Spec2Model ----
(***************************************************************************)
(* Model of src/src/handler.py: the two tools browse_website and           *)
(* send_notification, and lambda_handler, which runs one agent session and *)
(* reports its outcome.                                                    *)
(*                                                                         *)
(* Strings are sequences of pieces: a text is a sequence of one-character  *)
(* strings, a formatted message the sequence of its literal parts and      *)
(* interpolated values.  An exception is named by its class; str(e) is     *)
(* that name.                                                              *)
(***************************************************************************)
EXTENDS Integers, Sequences, FiniteSets, TLC

VARIABLES
    pc,           \* position of lambda_handler / the agent session / the running tool
    secrets_arn,  \* os.environ.get('SECRETS_ARN'): "" when not configured
    secret_ver,   \* version of the secret bundle held by the secret store
    result,       \* the agent's result (line 162), "" while there is none
    err,          \* str(e) of the exception lambda_handler caught (line 181)
    tool_exc,     \* class of the exception a tool raised into the agent loop
    response,     \* the payload lambda_handler returned
    escaped,      \* class of the exception that left lambda_handler, "" when none
    attempts,     \* the notifications lambda_handler itself attempted, in order
    tool_calls,   \* tool calls the model made in this session
    context,      \* tool results fed back to the model, in order
    sn_caller,    \* who called the running send_notification
    sn_msg,       \* its message argument
    credentials,  \* its local variable credentials (0: unbound)
    inv,          \* what the running invocation of send_notification did so far
    sn_log,       \* one record per finished invocation of send_notification
    channel,      \* the messages the messaging endpoint accepted with a 2xx answer
    b_in,         \* browse_website alone: its input and the environment's answers
    b_out         \* browse_website alone: its outcome

vars == <<pc, secrets_arn, secret_ver, result, err, tool_exc, response, escaped,
          attempts, tool_calls, context, sn_caller, sn_msg, credentials, inv, sn_log,
          channel, b_in, b_out>>

(***************************************************************************)
(* Bounds of the model.                                                    *)
(***************************************************************************)
MaxToolCalls == 2
MaxSecretVer == 2
MaxChunks == 2

(***************************************************************************)
(* Constants of the program.                                               *)
(***************************************************************************)
MAX_TEXT == 8000
GET_TIMEOUT == 15
POST_TIMEOUT == 10

\* the failure marker the error strings start with (U+274C in the source)
Marker == "[X]"
Confirmation == <<"Notification sent successfully">>
NoArnMsg == <<Marker, " No SECRETS_ARN environment variable found">>
CompletedMsg == <<"OP-1 Search Completed Successfully">>
SuccessMessage == "OP-1 search completed successfully"

FailedMsg(e) == <<"OP-1 Finder Error: ", e>>
BrowseErrorMsg(url, e) == <<Marker, " Error browsing ", url, ": ", e>>
NotifyErrorMsg(e) == <<Marker, " Error sending notification: ", e>>

HasMarker(s) == Len(s) > 0 /\ s[1] = Marker

(***************************************************************************)
(* Exception classes the calls of the program raise, and the except        *)
(* clauses that catch them.                                                *)
(***************************************************************************)
RequestExceptions == {"MissingSchema", "ConnectionError", "Timeout", "HTTPError"}
ParseExceptions == {"ParserRejectedMarkup"}
SecretExceptions == {"ClientError", "JSONDecodeError", "KeyError"}
ClientExceptions == {"NoRegionError"}
AgentExceptions == {"ModelError"}
Exceptions == RequestExceptions \cup ParseExceptions \cup SecretExceptions
                \cup ClientExceptions \cup AgentExceptions

IsRequestException(e) == e \in RequestExceptions
IsException(e) == e \in Exceptions

StatusCodes == {200, 304, 404, 500}
\* Response.raise_for_status raises HTTPError for 4xx and 5xx answers only
RaisesForStatus(s) == 400 <= s /\ s < 600
Is2xx(s) == 200 <= s /\ s < 300

NoResponse == [statusCode |-> 0, body |-> <<>>]
NoInv == [fetches |-> 0, posts |-> 0, fetched |-> 0, used |-> 0, status |-> 0]

Returned(v) == [raised |-> FALSE, value |-> v, exc |-> ""]
Raised(e) == [raised |-> TRUE, value |-> <<>>, exc |-> e]

(***************************************************************************)
(* browse_website                                                          *)
(***************************************************************************)
WS == {" ", "\n", "\t"}

RECURSIVE LStrip(_)
LStrip(s) == IF s # <<>> /\ Head(s) \in WS THEN LStrip(Tail(s)) ELSE s

RECURSIVE RStrip(_)
RStrip(s) == IF s # <<>> /\ s[Len(s)] \in WS THEN RStrip(SubSeq(s, 1, Len(s) - 1)) ELSE s

\* str.strip()
Strip(s) == RStrip(LStrip(s))

\* the first place where s holds a line break
FirstBreak(s) == CHOOSE i \in 1..Len(s) : s[i] = "\n" /\ \A j \in 1..(i - 1) : s[j] # "\n"

RECURSIVE SplitLines(_)
\* str.splitlines(): no line after a final line break
SplitLines(s) ==
    IF s = <<>> THEN <<>>
    ELSE IF \A i \in 1..Len(s) : s[i] # "\n" THEN <<s>>
    ELSE LET k == FirstBreak(s)
         IN  <<SubSeq(s, 1, k - 1)>> \o SplitLines(SubSeq(s, k + 1, Len(s)))

HasGap(s) == \E i \in 1..(Len(s) - 1) : s[i] = " " /\ s[i + 1] = " "
FirstGap(s) ==
    CHOOSE i \in 1..(Len(s) - 1) :
        /\ s[i] = " " /\ s[i + 1] = " "
        /\ \A j \in 1..(i - 1) : ~(s[j] = " " /\ s[j + 1] = " ")

RECURSIVE SplitGaps(_)
\* str.split("  "): the pieces between the double spaces, read left to right
SplitGaps(s) ==
    IF ~HasGap(s) THEN <<s>>
    ELSE LET k == FirstGap(s)
         IN  <<SubSeq(s, 1, k - 1)>> \o SplitGaps(SubSeq(s, k + 2, Len(s)))

RECURSIVE Chunks(_)
\* lines 45-46: every phrase of every stripped line, stripped
Chunks(lines) ==
    IF lines = <<>> THEN <<>>
    ELSE LET phrases == SplitGaps(Strip(Head(lines)))
         IN  [i \in 1..Len(phrases) |-> Strip(phrases[i])] \o Chunks(Tail(lines))

RECURSIVE JoinSpace(_)
JoinSpace(chunks) ==
    IF chunks = <<>> THEN <<>>
    ELSE IF Len(chunks) = 1 THEN chunks[1]
    ELSE chunks[1] \o <<" ">> \o JoinSpace(Tail(chunks))

\* lines 45-47, from the text soup.get_text() gave
CleanText(text) ==
    JoinSpace(SelectSeq(Chunks(SplitLines(text)), LAMBDA c : c # <<>>))

TruncateOff(text) == IF Len(text) >= MAX_TEXT THEN SubSeq(text, 1, MAX_TEXT - 1) ELSE text
\* lines 50-52
Truncate(text) == IF Len(text) > MAX_TEXT THEN SubSeq(text, 1, MAX_TEXT) ELSE text

\* the except clause of line 57
BrowseCatches(e) == IsRequestException(e)

\* The outcome of a call: an exception class, or for an HTTP call the status
\* of the answer.
Fails(e) == [exc |-> e, status |-> 0]
Answers(s) == [exc |-> "", status |-> s]

\* fetch: the outcome of requests.get; parse: the outcome of BeautifulSoup,
\* decompose and get_text ("" or an exception class); text: what get_text gave
BrowseWebsite(url, fetch, parse, text) ==
    LET exc == IF fetch.exc # "" THEN fetch.exc
               ELSE IF RaisesForStatus(fetch.status) THEN "HTTPError"
               ELSE parse
    IN  IF exc = "" THEN Returned(Truncate(CleanText(text)))
        ELSE IF BrowseCatches(exc) THEN Returned(BrowseErrorMsg(url, exc))
        ELSE Raised(exc)

\* A document text: segments of one repeated letter (a, b, a, ...), each followed
\* by a separator.
Rep(c, n) == [i \in 1..n |-> c]
SegLens == {0, 1, MAX_TEXT \div 2 - 1, MAX_TEXT \div 2, MAX_TEXT - 1}
Seps == {<<"\n">>, <<" ">>, <<" ", " ">>}
Segments == [n : SegLens, sep : Seps]
Letter(k) == IF k % 2 = 1 THEN "a" ELSE "b"

RECURSIVE TextFrom(_, _)
TextFrom(segs, k) ==
    IF k > Len(segs) THEN <<>>
    ELSE Rep(Letter(k), segs[k].n) \o segs[k].sep \o TextFrom(segs, k + 1)

TextOf(segs) == TextFrom(segs, 1)

RECURSIVE SeqsUpTo(_, _)
SeqsUpTo(S, n) ==
    IF n = 0 THEN {<<>>}
    ELSE LET shorter == SeqsUpTo(S, n - 1)
         IN  shorter \cup {Append(q, x) : q \in shorter, x \in S}

Urls == {"not a url", "https://site/listing"}
\* what requests.get can do for a URL
FetchOutcomes(url) ==
    IF url = "not a url" THEN {Fails("MissingSchema")}
    ELSE {Fails("ConnectionError"), Fails("Timeout")} \cup {Answers(s) : s \in StatusCodes}

Fetched(fetch) == fetch.exc = "" /\ ~RaisesForStatus(fetch.status)

BrowseInputs ==
    {[url |-> u, fetch |-> f, parse |-> p, segs |-> g] :
        u \in Urls, f \in UNION {FetchOutcomes(v) : v \in Urls},
        p \in {""} \cup ParseExceptions, g \in SeqsUpTo(Segments, MaxChunks)}

InitBrowse ==
    /\ pc = "off"
    /\ secrets_arn = "" /\ secret_ver = 1 /\ result = "" /\ err = "" /\ tool_exc = ""
    /\ response = NoResponse /\ escaped = "" /\ attempts = <<>> /\ tool_calls = 0
    /\ context = <<>> /\ sn_caller = "" /\ sn_msg = <<>> /\ credentials = 0
    /\ inv = NoInv /\ sn_log = <<>> /\ channel = <<>>
    /\ b_in \in {i \in BrowseInputs :
                    /\ i.fetch \in FetchOutcomes(i.url)
                    \* a document only comes with a 200 answer that parses
                    /\ ~(i.fetch = Answers(200) /\ i.parse = "") => i.segs = <<>>
                    /\ ~Fetched(i.fetch) => i.parse = ""}
    /\ b_out = <<>>

\* one call of browse_website
Browse ==
    /\ pc = "off" /\ b_out = <<>>
    /\ b_out' = <<BrowseWebsite(b_in.url, b_in.fetch, b_in.parse, TextOf(b_in.segs))>>
    /\ UNCHANGED <<pc, secrets_arn, secret_ver, result, err, tool_exc, response,
                   escaped, attempts, tool_calls, context, sn_caller, sn_msg,
                   credentials, inv, sn_log, channel, b_in>>

NextBrowse == Browse

SpecBrowse == InitBrowse /\ [][NextBrowse]_vars

(***************************************************************************)
(* lambda_handler, the agent session and send_notification                 *)
(***************************************************************************)
env == <<secrets_arn, secret_ver, b_in, b_out>>

\* the except clauses of lines 100, 170 and 181; line 188 (bare) catches all
SendCatches(e) == IsException(e)
InnerCatches(e) == IsException(e)
HandlerCatchesRequestsOnly(e) == IsRequestException(e)
HandlerCatches(e) == IsException(e)

ArnMissingIgnored(arn) == FALSE
\* line 79: not secrets_arn
ArnMissing(arn) == arn = ""

MatchMsg == <<"match: title, price, location, link, reason">>
FinalAnswer == "no match among the listings checked"

\* json.dumps of the two bodies: the keys and values in order
SuccessBody(r) == <<"message", SuccessMessage, "result", r>>
ErrorBody(e) == <<"error", e>>

\* A call of send_notification begins: its locals are fresh.
CallSend(caller, msg) ==
    /\ pc' = "sn_enter"
    /\ sn_caller' = caller /\ sn_msg' = msg
    /\ credentials' = 0 /\ inv' = NoInv

\* No call of send_notification is running.
NoSend == sn_caller' = "" /\ sn_msg' = <<>> /\ credentials' = 0 /\ inv' = NoInv

\* lines 173-179 and 191-194
Respond(status, body) ==
    /\ pc' = "done"
    /\ response' = [statusCode |-> status, body |-> body]

ExceptSilent(e) ==
    /\ err' = e
    /\ pc' = "done" /\ response' = [statusCode |-> 500, body |-> ErrorBody(e)]
    /\ NoSend
    /\ UNCHANGED <<escaped, attempts>>
\* An exception reaches line 181: lines 181-187, up to the call of line 187.
Except(e) ==
    IF HandlerCatches(e)
    THEN /\ err' = e
         /\ attempts' = Append(attempts, [kind |-> "failed", msg |-> FailedMsg(e)])
         /\ CallSend("failed", FailedMsg(e))
         /\ UNCHANGED <<escaped, response>>
    ELSE /\ pc' = "raised" /\ escaped' = e
         /\ NoSend
         /\ UNCHANGED <<err, attempts, response>>

\* lines 146-158: BedrockModel(...) and Agent(...)
Construct ==
    /\ pc = "construct"
    /\ \E o \in {""} \cup AgentExceptions :
          IF o = ""
          THEN /\ pc' = "reason"
               /\ UNCHANGED <<err, escaped, attempts, response, sn_caller, sn_msg,
                              credentials, inv>>
          ELSE Except(o)
    /\ UNCHANGED <<result, tool_exc, tool_calls, context, sn_log, channel, env>>

\* line 162: the model ends the session with its answer; lines 164-169, up to
\* the call of line 169
ModelFinal ==
    /\ pc = "reason"
    /\ result' = FinalAnswer
    /\ attempts' = Append(attempts, [kind |-> "completed", msg |-> CompletedMsg])
    /\ CallSend("completed", CompletedMsg)
    /\ UNCHANGED <<err, tool_exc, response, escaped, tool_calls, context, sn_log,
                   channel, env>>

\* line 162: the inference call, or the event loop, raises
ModelRaise ==
    /\ pc = "reason"
    /\ \E e \in AgentExceptions : Except(e)
    /\ UNCHANGED <<result, tool_exc, tool_calls, context, sn_log, channel, env>>

\* line 162: the model asks for browse_website
ModelCallsBrowse ==
    /\ pc = "reason" /\ tool_calls < MaxToolCalls
    /\ pc' = "browse" /\ tool_calls' = tool_calls + 1
    /\ UNCHANGED <<result, err, tool_exc, response, escaped, attempts, context,
                   sn_caller, sn_msg, credentials, inv, sn_log, channel, env>>

\* line 162: the model asks for send_notification
ModelCallsNotify ==
    /\ pc = "reason" /\ tool_calls < MaxToolCalls
    /\ tool_calls' = tool_calls + 1
    /\ CallSend("agent", MatchMsg)
    /\ UNCHANGED <<result, err, tool_exc, response, escaped, attempts, context,
                   sn_log, channel, env>>

ShortTexts == {<<>>, <<"a">>, <<" ", "a", " ", " ", "b", "\n", "c">>}

\* lines 25-60, called by the agent loop
BrowseTool ==
    /\ pc = "browse"
    /\ \E u \in Urls, p \in {""} \cup ParseExceptions, t \in ShortTexts :
       \E f \in FetchOutcomes(u) :
          LET out == BrowseWebsite(u, f, p, t)
          IN  IF out.raised
              THEN pc' = "tool_raised" /\ tool_exc' = out.exc /\ UNCHANGED context
              ELSE pc' = "reason" /\ context' = Append(context, out) /\ UNCHANGED tool_exc
    /\ UNCHANGED <<result, err, response, escaped, attempts, tool_calls, sn_caller,
                   sn_msg, credentials, inv, sn_log, channel, env>>

\* A tool raised into the agent loop: the loop hands the error to the model as
\* the tool's result, or the session ends with the exception.
ToolError ==
    /\ pc = "tool_raised"
    /\ tool_exc' = ""
    /\ \/ /\ pc' = "reason"
          /\ context' = Append(context, Raised(tool_exc))
          /\ UNCHANGED <<err, escaped, attempts, response, sn_caller, sn_msg,
                         credentials, inv>>
       \/ /\ Except(tool_exc)
          /\ UNCHANGED context
    /\ UNCHANGED <<result, tool_calls, sn_log, channel, env>>

\* send_notification is left with outcome out: control is back in the caller.
ResumeAgent(out) ==
    /\ IF out.raised
       THEN pc' = "tool_raised" /\ tool_exc' = out.exc /\ UNCHANGED context
       ELSE pc' = "reason" /\ context' = Append(context, out) /\ UNCHANGED tool_exc
    /\ NoSend
    /\ UNCHANGED <<err, escaped, attempts, response>>

ResumeCompletedEscalating(out) ==
    /\ IF out.raised \/ HasMarker(out.value)
       THEN Except("HTTPError")
       ELSE Respond(200, SuccessBody(result)) /\ NoSend /\ UNCHANGED <<err, escaped, attempts>>
    /\ UNCHANGED <<context, tool_exc>>
\* lines 168-179
ResumeCompleted(out) ==
    /\ IF out.raised /\ ~InnerCatches(out.exc)
       THEN Except(out.exc)
       ELSE Respond(200, SuccessBody(result)) /\ NoSend /\ UNCHANGED <<err, escaped, attempts>>
    /\ UNCHANGED <<context, tool_exc>>

ResumeFailedRaising(out) ==
    /\ IF out.raised \/ HasMarker(out.value)
       THEN pc' = "raised" /\ escaped' = "NotificationError" /\ UNCHANGED response
       ELSE Respond(500, ErrorBody(err)) /\ UNCHANGED escaped
    /\ NoSend
    /\ UNCHANGED <<err, attempts, context, tool_exc>>
\* lines 186-194
ResumeFailed(out) ==
    /\ Respond(500, ErrorBody(err))
    /\ NoSend
    /\ UNCHANGED <<err, escaped, attempts, context, tool_exc>>

\* The invocation ends: what it did is on record, and its caller goes on.
SendExit(out, done) ==
    /\ sn_log' = Append(sn_log, [caller |-> sn_caller, arn |-> secrets_arn,
                                 msg |-> sn_msg, did |-> done, out |-> out])
    /\ CASE sn_caller = "agent" -> ResumeAgent(out)
         [] sn_caller = "completed" -> ResumeCompleted(out)
         [] sn_caller = "failed" -> ResumeFailed(out)

\* lines 100-103
SendCaught(e) == IF SendCatches(e) THEN Returned(NotifyErrorMsg(e)) ELSE Raised(e)

\* The invocation goes on to its next call.
Stay == UNCHANGED <<err, tool_exc, response, escaped, attempts, context, sn_caller,
                    sn_msg, sn_log>>

\* lines 72-80: boto3.client(...), the environment lookup and its test
SN_Enter ==
    /\ pc = "sn_enter"
    /\ \E c \in {""} \cup ClientExceptions :
          IF c # "" THEN SendExit(SendCaught(c), inv)
          ELSE IF ArnMissing(secrets_arn) THEN SendExit(Returned(NoArnMsg), inv)
          ELSE pc' = "sn_fetch" /\ UNCHANGED <<credentials, inv>> /\ Stay
    /\ UNCHANGED <<result, tool_calls, channel, env>>

\* lines 82-92: get_secret_value, json.loads and the two keys of the bundle
SN_Fetch ==
    /\ pc = "sn_fetch"
    /\ \E o \in {""} \cup SecretExceptions :
          IF o = ""
          THEN /\ pc' = "sn_post"
               /\ credentials' = secret_ver
               /\ inv' = [inv EXCEPT !.fetches = @ + 1, !.fetched = secret_ver]
               /\ Stay
          ELSE SendExit(SendCaught(o), [inv EXCEPT !.fetches = @ + 1])
    /\ UNCHANGED <<result, tool_calls, channel, env>>

\* what requests.post can do
PostOutcomes == {Fails("ConnectionError"), Fails("Timeout")} \cup {Answers(s) : s \in StatusCodes}

SN_PostRetrying ==
    /\ pc = "sn_post"
    /\ \E o \in PostOutcomes :
          LET did == [inv EXCEPT !.posts = @ + 1, !.used = credentials, !.status = o.status]
          IN  /\ channel' = IF o.exc = "" /\ Is2xx(o.status)
                            THEN Append(channel, sn_msg) ELSE channel
              /\ IF o.exc # "" /\ inv.posts = 0
                 THEN pc' = "sn_post" /\ inv' = did /\ UNCHANGED credentials /\ Stay
                 ELSE IF o.exc # "" THEN SendExit(SendCaught(o.exc), did)
                 ELSE IF RaisesForStatus(o.status) THEN SendExit(SendCaught("HTTPError"), did)
                 ELSE SendExit(Returned(Confirmation), did)
    /\ UNCHANGED <<result, tool_calls, env>>
\* lines 94-98: the POST and raise_for_status
SN_Post ==
    /\ pc = "sn_post"
    /\ \E o \in PostOutcomes :
          LET did == [inv EXCEPT !.posts = @ + 1, !.used = credentials, !.status = o.status]
          IN  /\ channel' = IF o.exc = "" /\ Is2xx(o.status)
                            THEN Append(channel, sn_msg) ELSE channel
              /\ IF o.exc # "" THEN SendExit(SendCaught(o.exc), did)
                 ELSE IF RaisesForStatus(o.status) THEN SendExit(SendCaught("HTTPError"), did)
                 ELSE SendExit(Returned(Confirmation), did)
    /\ UNCHANGED <<result, tool_calls, env>>

\* The secret store's owner replaces the bundle.
Rotate ==
    /\ pc \in {"reason", "browse", "sn_enter", "sn_fetch", "sn_post", "tool_raised"}
    /\ secret_ver < MaxSecretVer
    /\ secret_ver' = secret_ver + 1
    /\ UNCHANGED <<pc, secrets_arn, result, err, tool_exc, response, escaped, attempts,
                   tool_calls, context, sn_caller, sn_msg, credentials, inv, sn_log,
                   channel, b_in, b_out>>

Init ==
    /\ pc = "construct"
    /\ secrets_arn \in {"", "arn:aws:secretsmanager:bundle"}
    /\ secret_ver = 1 /\ result = "" /\ err = "" /\ tool_exc = ""
    /\ response = NoResponse /\ escaped = "" /\ attempts = <<>> /\ tool_calls = 0
    /\ context = <<>> /\ sn_caller = "" /\ sn_msg = <<>> /\ credentials = 0
    /\ inv = NoInv /\ sn_log = <<>> /\ channel = <<>>
    /\ b_in = <<>> /\ b_out = <<>>

Next ==
    \/ Construct
    \/ ModelFinal
    \/ ModelRaise
    \/ ModelCallsBrowse
    \/ ModelCallsNotify
    \/ BrowseTool
    \/ ToolError
    \/ SN_Enter
    \/ SN_Fetch
    \/ SN_Post
    \/ Rotate

Spec == Init /\ [][Next]_vars

(***************************************************************************)
(* Scheduling.  A step that is local computation is taken; a blocking call *)
(* returns (with an answer or a timeout error) when the code gives it a    *)
(* timeout.  requests.get (line 32) and requests.post (line 94) have one;  *)
(* get_secret_value (line 82) and the agent call with its inference        *)
(* requests (line 162) are given none.                                     *)
(***************************************************************************)
Timeouts == [get |-> GET_TIMEOUT, post |-> POST_TIMEOUT]
HasTimeout(call) == call \in DOMAIN Timeouts

\* the blocking call each step waits for ("" when it waits for none)
Awaits ==
    [Construct |-> "", ToolError |-> "", SN_Enter |-> "",
     BrowseTool |-> "get", SN_Post |-> "post",
     SN_Fetch |-> "get_secret_value",
     ModelFinal |-> "agent", ModelRaise |-> "agent",
     ModelCallsBrowse |-> "agent", ModelCallsNotify |-> "agent"]
Returns(step) == Awaits[step] = "" \/ HasTimeout(Awaits[step])

FairSpec ==
    /\ Spec
    /\ Returns("Construct") => WF_vars(Construct)
    /\ Returns("ToolError") => WF_vars(ToolError)
    /\ Returns("SN_Enter") => WF_vars(SN_Enter)
    /\ Returns("BrowseTool") => WF_vars(BrowseTool)
    /\ Returns("SN_Post") => WF_vars(SN_Post)
    /\ Returns("SN_Fetch") => WF_vars(SN_Fetch)
    /\ Returns("ModelFinal") => WF_vars(ModelFinal \/ ModelRaise \/ ModelCallsBrowse \/ ModelCallsNotify)

(***************************************************************************)
(* Properties                                                              *)
(***************************************************************************)
Ended == pc \in {"done", "raised"}
Last(q) == q[Len(q)]
\* the invocations of send_notification lambda_handler made itself
OwnSends == {i \in 1..Len(sn_log) : sn_log[i].caller \in {"completed", "failed"}}
Delivered(e) == e.did.posts = 1 /\ Is2xx(e.did.status)
SessionFailed == err # ""
SessionReturned == result # ""

\* C1: lambda_handler never ends by raising: no exception leaves it, and when it
\* has ended it has returned a payload with statusCode 200 or 500 and a body.
C1_NoExceptionEscapes ==
    /\ escaped = "" /\ pc # "raised"
    /\ pc = "done" => response.statusCode \in {200, 500} /\ response.body # <<>>
    /\ pc # "done" => response = NoResponse

\* a run that failed and whose failure notification failed as well has returned 500
C1_Witness ==
    /\ pc = "done" /\ response.statusCode = 500
    /\ sn_log # <<>> /\ Last(sn_log).caller = "failed" /\ HasMarker(Last(sn_log).out.value)

\* C2: when the agent session returned normally, lambda_handler attempted exactly
\* one notification, the completed one, and returned 200 with the success
\* message and the result text, whether or not that notification went through.
C2_CompletedOnceThen200 ==
    (Ended /\ SessionReturned) =>
        /\ pc = "done"
        /\ attempts = <<[kind |-> "completed", msg |-> CompletedMsg]>>
        /\ Cardinality(OwnSends) = 1
        /\ \A i \in OwnSends : sn_log[i].caller = "completed" /\ sn_log[i].msg = CompletedMsg
        /\ response = [statusCode |-> 200, body |-> SuccessBody(result)]

\* the model called no tool, and the completed notification failed
C2_Witness ==
    /\ pc = "done" /\ SessionReturned /\ tool_calls = 0
    /\ Len(sn_log) = 1 /\ HasMarker(sn_log[1].out.value)

\* C3: when constructing or running the agent raised, lambda_handler attempted
\* exactly one notification, the failed one with the error detail, and returned
\* 500 with the error detail in the body, whether or not that notification went
\* through.
C3_FailedOnceThen500 ==
    (Ended /\ SessionFailed) =>
        /\ pc = "done" /\ ~SessionReturned
        /\ attempts = <<[kind |-> "failed", msg |-> FailedMsg(err)]>>
        /\ Cardinality(OwnSends) = 1
        /\ \A i \in OwnSends : sn_log[i].caller = "failed" /\ sn_log[i].msg = FailedMsg(err)
        /\ response = [statusCode |-> 500, body |-> ErrorBody(err)]

\* the session raised after a tool call, and the failed notification failed too
C3_Witness ==
    /\ pc = "done" /\ SessionFailed /\ tool_calls > 0
    /\ Last(sn_log).caller = "failed" /\ HasMarker(Last(sn_log).out.value)

\* C4: send_notification never raises; it returns the confirmation only when the
\* POST got a 2xx answer, and otherwise a string with the failure marker.
C4_ConfirmationOnly2xx ==
    \A i \in 1..Len(sn_log) :
        LET e == sn_log[i]
        IN  /\ ~e.out.raised
            /\ e.out.value = Confirmation => Delivered(e)
            /\ e.out.value # Confirmation => HasMarker(e.out.value)

\* C6: a call of send_notification without a configured SECRETS_ARN returns a
\* failure string and neither fetches the secret nor POSTs.
C6_NoArnNoNetwork ==
    /\ \A i \in 1..Len(sn_log) :
          sn_log[i].arn = "" =>
              /\ ~sn_log[i].out.raised /\ HasMarker(sn_log[i].out.value)
              /\ sn_log[i].did.fetches = 0 /\ sn_log[i].did.posts = 0
    /\ secrets_arn = "" =>
          /\ inv.fetches = 0 /\ inv.posts = 0
          /\ pc \notin {"sn_fetch", "sn_post"}

\* a call without SECRETS_ARN got past the client's creation and returned
C6_Witness ==
    \E i \in 1..Len(sn_log) : sn_log[i].arn = "" /\ sn_log[i].out.value = NoArnMsg

\* C7 as stated: a run that returned left a message on the channel, unless the
\* session failed and the failed notification was not delivered.
C7_NeverSilentUnlessBothFail ==
    pc = "done" =>
        \/ channel # <<>>
        \/ SessionFailed /\ \E i \in OwnSends : ~Delivered(sn_log[i])

\* C7 amended: a run that ended left a message on the channel, unless
\* lambda_handler's own final notification, completed or failed, was attempted
\* and not delivered.
C7_NeverSilentUnlessFinalFails ==
    Ended =>
        \/ channel # <<>>
        \/ \E i \in OwnSends : ~Delivered(sn_log[i])

\* the session returned, the completed notification was not delivered: silence
C7_Witness ==
    /\ pc = "done" /\ SessionReturned /\ channel = <<>>
    /\ \E i \in OwnSends : ~Delivered(sn_log[i])

\* what an invocation did: the finished ones and the running one
Dids == {sn_log[i].did : i \in 1..Len(sn_log)} \cup {inv}

\* C9: an invocation of send_notification POSTs at most once, and only with the
\* credentials it fetched itself, after a fetch that succeeded.
C9_OnePostWithFreshCredentials ==
    /\ \A d \in Dids :
          /\ d.posts <= 1 /\ d.fetches <= 1
          /\ d.posts = 1 => d.fetches = 1 /\ d.fetched # 0 /\ d.used = d.fetched
    /\ pc = "sn_post" => credentials # 0 /\ credentials = inv.fetched
    /\ pc \in {"sn_enter", "sn_fetch"} => credentials = 0

\* two invocations POSTed, each with the version of the bundle it fetched
C9_Witness ==
    \E i, j \in 1..Len(sn_log) :
        /\ i < j
        /\ sn_log[i].did.posts = 1 /\ sn_log[i].did.used = 1
        /\ sn_log[j].did.posts = 1 /\ sn_log[j].did.used = 2

\* C10: every run terminates: lambda_handler eventually returns its payload.
C10_EveryRunReturns == <>(pc = "done")

\* C5: browse_website never raises, and when the fetch failed the string it
\* returns carries the failure marker and the exception detail.
C5_BrowseNeverRaises ==
    b_out # <<>> =>
        /\ ~b_out[1].raised
        /\ ~Fetched(b_in.fetch) =>
              /\ HasMarker(b_out[1].value)
              /\ Last(b_out[1].value) \in RequestExceptions

\* C8: after a successful fetch, a cleaned text longer than MAX_TEXT comes back
\* as its first MAX_TEXT characters, and a shorter one unchanged.
C8_TruncatedToPrefix ==
    (b_out # <<>> /\ ~b_out[1].raised /\ Fetched(b_in.fetch)) =>
        LET clean == CleanText(TextOf(b_in.segs))
            ret == b_out[1].value
        IN  IF Len(clean) > MAX_TEXT
            THEN Len(ret) = MAX_TEXT /\ \A i \in 1..MAX_TEXT : ret[i] = clean[i]
            ELSE ret = clean

\* a text of both letters, longer than MAX_TEXT, was cut
C8_Witness ==
    /\ b_out # <<>> /\ ~b_out[1].raised /\ Fetched(b_in.fetch)
    /\ Len(b_out[1].value) = MAX_TEXT
    /\ Len(CleanText(TextOf(b_in.segs))) > MAX_TEXT
    /\ \E i \in 1..MAX_TEXT : b_out[1].value[i] = "b"

====
